---- MODULE Spec2Model ----
(***************************************************************************)
(* fundAndUploadNestedBundle (src/app/utils/fundAndUploadNestedBundle.ts). *)
(*                                                                         *)
(* One call of fundAndUploadNestedBundle is a chain of continuations of    *)
(* the JavaScript event loop: every action below is the code that runs     *)
(* between two awaits.  The SDK (arbundles / Irys / Arweave) is the        *)
(* environment: each awaited SDK promise either resolves or rejects, and   *)
(* the chunked uploader emits events only while uploadTransaction runs.    *)
(*                                                                         *)
(* Identifiers are strings in the code.  Here a string is the sequence of  *)
(* its parts: "" is <<>>, the id of an unsigned item is <<0>>, the id of   *)
(* a signed item is <<signer, nonce>> (RSA-PSS signatures are salted, so   *)
(* every signing operation yields an id of its own), and the id of the     *)
(* transaction of call c is <<0, c>>.                                      *)
(***************************************************************************)
EXTENDS Integers, Sequences, FiniteSets, TLC

\* Number of calls of fundAndUploadNestedBundle in a run.
NumCalls == 2
\* Largest number of files handed to one call.
MaxFiles == 3
\* Largest number of chunk events the uploader emits for one upload.
MaxChunks == 1

Calls == 1..NumCalls

\* The File objects a user can pick: name, bytes (arrayBuffer), type.
\* Two of them carry the same name.
FileUniverse ==
    { [name |-> "a.txt", data |-> 1, type |-> "text/plain"],
      [name |-> "a.txt", data |-> 2, type |-> "image/png"],
      [name |-> "b.txt", data |-> 3, type |-> "text/plain"] }

RECURSIVE SeqsUpTo(_, _)
SeqsUpTo(S, n) ==
    IF n = 0 THEN { <<>> }
    ELSE LET shorter == SeqsUpTo(S, n - 1)
         IN  shorter \cup { Append(s, x) : s \in shorter, x \in S }

\* The file lists given to a single call.
Inputs == SeqsUpTo(FileUniverse, MaxFiles)
\* The file lists given to calls that overlap with other calls: no file or
\* the one file b.txt (what sets overlapping calls apart is their signer).
OverlapInputs ==
    { <<>> } \cup { <<f>> : f \in { g \in FileUniverse : g.name = "b.txt" } }

EmptyString == <<>>
UnsignedId == <<0>>
NoSigner == 0

NoItem ==
    [kind |-> "none", data |-> 0, ctype |-> "", owner |-> NoSigner,
     id |-> UnsignedId, paths |-> <<>>]
NoTx == [id |-> EmptyString, signed |-> FALSE, data |-> <<>>]
NoResult == <<>>
Rejected == << <<0>> >>

VARIABLES
    files,           \* files[c]: the argument of call c
    pc,              \* pc[c]: the await call c is suspended at
    ephemeralSigner, \* the signer of call c (NoSigner before key generation)
    fstate,          \* fstate[c][i]: where prepareFile of file i stands
    fitem,           \* fitem[c][i]: the DataItem created for file i
    order,           \* order[c]: file indices in the order they settled
    preppedFiles,    \* the Map prepareFiles returned: <<name, item>> entries
    pathMap,         \* the Map handed to generateManifest: <<name, id>>
    bundle,          \* bundle.items of the bundle bundleItems returned
    tx,              \* the transaction uploadBundle created
    listeners,       \* events registered with uploader.on, in order
    emitted,         \* number of events the uploader emitted
    heard,           \* number of callback invocations
    uploads,         \* transactions passed to uploadTransaction
    trace,           \* SDK stage calls made so far, in order
    result,          \* what the promise of call c settled to
    threw,           \* an error reached the catch block
    errorsLogged     \* number of "Error on upload:" lines

vars ==
    << files, pc, ephemeralSigner, fstate, fitem, order, preppedFiles,
       pathMap, bundle, tx, listeners, emitted, heard, uploads, trace,
       result, threw, errorsLogged >>

-----------------------------------------------------------------------------
\* Pure parts of the code.

\* new ArweaveSigner(await Arweave.crypto.generateJWK()): the key of the
\* generateJWK invocation made by call c.
CachedSigner(c) == 1
NewSigner(c) == c

\* createData(bytes, signer, {tags: [Content-Type: file.type]})
CreateFileItem(f, s) ==
    [kind |-> "file", data |-> f.data, ctype |-> f.type, owner |-> s,
     id |-> UnsignedId, paths |-> <<>>]

\* createData(JSON.stringify(manifest), signer, {tags: manifest tags})
CreateManifestItem(pm, s) ==
    [kind |-> "manifest", data |-> 0,
     ctype |-> "application/x.arweave-manifest+json", owner |-> s,
     id |-> UnsignedId, paths |-> pm]

\* item.sign(signer): the id becomes the hash of the fresh signature.
Sign(item, s, nonce) == [item EXCEPT !.id = <<s, nonce>>]

IsSigned(item) == item.id # UnsignedId

\* Map.prototype.set on an insertion-ordered list of entries.
MapSet(m, k, v) ==
    IF \E j \in 1..Len(m) : m[j][1] = k
    THEN [j \in 1..Len(m) |-> IF m[j][1] = k THEN <<k, v>> ELSE m[j]]
    ELSE Append(m, <<k, v>>)

\* new Map(entries)
RECURSIVE NewMap(_)
NewMap(entries) ==
    IF entries = <<>> THEN <<>>
    ELSE LET n == Len(entries)
         IN  MapSet(NewMap(SubSeq(entries, 1, n - 1)),
                    entries[n][1], entries[n][2])

\* [...itemMap.values()]
MapValues(m) == [j \in 1..Len(m) |-> m[j][2]]

\* Promise.all over the per-file promises: rejected at the first failure,
\* fulfilled when every file is done.
PromiseAny(st) ==
    IF \E i \in 1..Len(st) : st[i] = "failed" THEN "rejected"
    ELSE IF st = <<>> \/ \E i \in 1..Len(st) : st[i] = "done" THEN "fulfilled"
    ELSE "pending"
PromiseAllSettled(st) ==
    IF \A i \in 1..Len(st) : st[i] \in {"done", "failed"} THEN "fulfilled"
    ELSE "pending"
PromiseAll(st) ==
    IF \E i \in 1..Len(st) : st[i] = "failed" THEN "rejected"
    ELSE IF \A i \in 1..Len(st) : st[i] = "done" THEN "fulfilled"
    ELSE "pending"

\* The value Promise.all fulfils with: [file.name, item] per file, in the
\* order of the input list.
ValuesAsSettled(fs, items, ord) ==
    [k \in 1..Len(fs) |->
        IF k <= Len(ord) THEN <<fs[ord[k]].name, items[ord[k]]>>
        ELSE <<fs[k].name, items[k]>>]
PromiseAllValues(fs, items, ord) ==
    [i \in 1..Len(fs) |-> <<fs[i].name, items[i]>>]

\* new Map([...itemMap].map(([path, item]) => [path, item.id]))
PathMapOf(itemMap) ==
    NewMap([j \in 1..Len(itemMap) |-> <<itemMap[j][1], itemMap[j][2].id>>])

\* bundleAndSignData(items, signer): signs the items that are not signed
\* yet and keeps their order; the manifest item gets nonce 0.
BundleAndSignData(items, s) ==
    [j \in 1..Len(items) |->
        IF IsSigned(items[j]) THEN items[j] ELSE Sign(items[j], s, 0)]

\* bundle.items[bundle.items.length - 1].id
FirstItemId(b) == b[1].id
ManifestIdOf(b) == b[Len(b)].id

\* The events uploadBundle registers a callback for before it creates the
\* transaction.
CallbacksWithoutDone == <<"chunkUpload", "chunkUpload", "chunkError">>
RegisteredCallbacks == <<"chunkUpload", "chunkError", "done">>

CallbacksFor(ls, ev) == Cardinality({ j \in 1..Len(ls) : ls[j] = ev })

\* receipt.data.id of the receipt the uploader returns for a transaction.
ReceiptId(t) == t.id

\* return [manifestId, receiptId] inside the try block.
FallThroughReturn(pair) == <<EmptyString, EmptyString>>
TryReturn(pair) == pair

\* return ["", ""] after the try/catch.
Rethrow == Rejected
Fallback == <<EmptyString, EmptyString>>

Stages ==
    << "generateManifest", "bundleAndSignData", "createTransaction",
       "sign", "uploadTransaction" >>

\* The awaits of the call chain whose promise can reject.
AwaitPoints ==
    { "keygen", "getIrys1", "manifest", "bundling", "getIrys2", "txsign",
      "uploading" }

-----------------------------------------------------------------------------
Init ==
    /\ files = [c \in Calls |-> <<>>]
    /\ pc = [c \in Calls |-> "idle"]
    /\ ephemeralSigner = [c \in Calls |-> NoSigner]
    /\ fstate = [c \in Calls |-> <<>>]
    /\ fitem = [c \in Calls |-> <<>>]
    /\ order = [c \in Calls |-> <<>>]
    /\ preppedFiles = [c \in Calls |-> <<>>]
    /\ pathMap = [c \in Calls |-> <<>>]
    /\ bundle = [c \in Calls |-> <<>>]
    /\ tx = [c \in Calls |-> NoTx]
    /\ listeners = [c \in Calls |-> <<>>]
    /\ emitted = [c \in Calls |-> 0]
    /\ heard = [c \in Calls |-> 0]
    /\ uploads = [c \in Calls |-> <<>>]
    /\ trace = [c \in Calls |-> <<>>]
    /\ result = [c \in Calls |-> NoResult]
    /\ threw = [c \in Calls |-> FALSE]
    /\ errorsLogged = [c \in Calls |-> 0]

\* catch (e) { console.log("Error on upload:", e); }  return ["", ""];
Catch(c) ==
    /\ pc' = [pc EXCEPT ![c] = "returned"]
    /\ threw' = [threw EXCEPT ![c] = TRUE]
    /\ errorsLogged' = [errorsLogged EXCEPT ![c] = @ + 1]
    /\ result' = [result EXCEPT ![c] = Fallback]

\* The continuation of `await Promise.all(...)` in prepareFiles, run with
\* the per-file states st and items its: on fulfilment prepareFiles returns
\* new Map(items) and bundleItems starts with `await getIrys()`; on
\* rejection the error reaches the catch block.
AwaitPrepareFiles(c, st, its, ord) ==
    IF pc[c] \in {"keygen", "prepare"} /\ PromiseAll(st) = "fulfilled"
    THEN /\ pc' = [pc EXCEPT ![c] = "getIrys1"]
         /\ preppedFiles' =
                [preppedFiles EXCEPT
                    ![c] = NewMap(PromiseAllValues(files[c], its, ord))]
         /\ UNCHANGED << result, threw, errorsLogged >>
    ELSE IF pc[c] \in {"keygen", "prepare"} /\ PromiseAll(st) = "rejected"
    THEN /\ Catch(c)
         /\ UNCHANGED preppedFiles
    ELSE /\ pc' = [pc EXCEPT ![c] = IF @ = "keygen" THEN "prepare" ELSE @]
         /\ UNCHANGED << preppedFiles, result, threw, errorsLogged >>

\* fundAndUploadNestedBundle(fs) is called: generateJWK() is awaited.
Call(c, fs) ==
    /\ pc[c] = "idle"
    /\ files' = [files EXCEPT ![c] = fs]
    /\ fstate' = [fstate EXCEPT ![c] = [i \in 1..Len(fs) |-> "new"]]
    /\ fitem' = [fitem EXCEPT ![c] = [i \in 1..Len(fs) |-> NoItem]]
    /\ pc' = [pc EXCEPT ![c] = "keygen"]
    /\ UNCHANGED << ephemeralSigner, order, preppedFiles, pathMap, bundle,
                    tx, listeners, emitted, heard, uploads, trace, result,
                    threw, errorsLogged >>

\* generateJWK resolved: the signer is built and prepareFiles maps every
\* file to prepareFile, which awaits file.arrayBuffer().
KeyGenerated(c) ==
    /\ pc[c] = "keygen"
    /\ ephemeralSigner' = [ephemeralSigner EXCEPT ![c] = NewSigner(c)]
    /\ LET st == [i \in 1..Len(files[c]) |-> "reading"]
       IN  /\ fstate' = [fstate EXCEPT ![c] = st]
           /\ AwaitPrepareFiles(c, st, fitem[c], order[c])
    /\ UNCHANGED << files, fitem, order, pathMap, bundle, tx, listeners,
                    emitted, heard, uploads, trace >>

\* file.arrayBuffer() of file i resolved: createData builds the item and
\* item.sign(ephemeralSigner) is awaited.
FileRead(c, i) ==
    /\ i \in 1..Len(files[c])
    /\ fstate[c][i] = "reading"
    /\ fstate' = [fstate EXCEPT ![c][i] = "signing"]
    /\ fitem' = [fitem EXCEPT
                    ![c][i] = CreateFileItem(files[c][i], ephemeralSigner[c])]
    /\ UNCHANGED << files, pc, ephemeralSigner, order, preppedFiles, pathMap,
                    bundle, tx, listeners, emitted, heard, uploads, trace,
                    result, threw, errorsLogged >>

\* item.sign of file i resolved: prepareFile returns the signed item and
\* the map callback returns [file.name, item].
FileSigned(c, i) ==
    /\ i \in 1..Len(files[c])
    /\ fstate[c][i] = "signing"
    /\ LET st == [fstate[c] EXCEPT ![i] = "done"]
           its == [fitem[c] EXCEPT ![i] = Sign(@, ephemeralSigner[c], i)]
           ord == Append(order[c], i)
       IN  /\ fstate' = [fstate EXCEPT ![c] = st]
           /\ fitem' = [fitem EXCEPT ![c] = its]
           /\ order' = [order EXCEPT ![c] = ord]
           /\ AwaitPrepareFiles(c, st, its, ord)
    /\ UNCHANGED << files, ephemeralSigner, pathMap, bundle, tx, listeners,
                    emitted, heard, uploads, trace >>

\* file.arrayBuffer() rejected, createData threw or item.sign rejected for
\* file i: its promise rejects.
FileFailed(c, i) ==
    /\ i \in 1..Len(files[c])
    /\ fstate[c][i] \in {"reading", "signing"}
    /\ LET st == [fstate[c] EXCEPT ![i] = "failed"]
           ord == Append(order[c], i)
       IN  /\ fstate' = [fstate EXCEPT ![c] = st]
           /\ order' = [order EXCEPT ![c] = ord]
           /\ AwaitPrepareFiles(c, st, fitem[c], ord)
    /\ UNCHANGED << files, ephemeralSigner, fitem, pathMap, bundle, tx,
                    listeners, emitted, heard, uploads, trace >>

\* bundleItems, getIrys() resolved: the path map is built and
\* generateManifest is awaited.
ManifestRequested(c) ==
    /\ pc[c] = "getIrys1"
    /\ pathMap' = [pathMap EXCEPT ![c] = PathMapOf(preppedFiles[c])]
    /\ trace' = [trace EXCEPT ![c] = Append(@, "generateManifest")]
    /\ pc' = [pc EXCEPT ![c] = "manifest"]
    /\ UNCHANGED << files, ephemeralSigner, fstate, fitem, order,
                    preppedFiles, bundle, tx, listeners, emitted, heard,
                    uploads, result, threw, errorsLogged >>

\* generateManifest resolved: the manifest item is created and
\* bundleAndSignData([...items, manifestItem]) is awaited.
ManifestGenerated(c) ==
    /\ pc[c] = "manifest"
    /\ trace' = [trace EXCEPT ![c] = Append(@, "bundleAndSignData")]
    /\ pc' = [pc EXCEPT ![c] = "bundling"]
    /\ UNCHANGED << files, ephemeralSigner, fstate, fitem, order,
                    preppedFiles, pathMap, bundle, tx, listeners, emitted,
                    heard, uploads, result, threw, errorsLogged >>

\* bundleAndSignData resolved: bundleItems returns the bundle and
\* uploadBundle starts with `await getIrys()`.
Bundled(c) ==
    /\ pc[c] = "bundling"
    /\ bundle' =
          [bundle EXCEPT
              ![c] = BundleAndSignData(
                        Append(MapValues(preppedFiles[c]),
                               CreateManifestItem(pathMap[c],
                                                  ephemeralSigner[c])),
                        ephemeralSigner[c])]
    /\ pc' = [pc EXCEPT ![c] = "getIrys2"]
    /\ UNCHANGED << files, ephemeralSigner, fstate, fitem, order,
                    preppedFiles, pathMap, tx, listeners, emitted, heard,
                    uploads, trace, result, threw, errorsLogged >>

\* uploadBundle, getIrys() resolved: the three callbacks are registered,
\* the transaction is created and tx.sign() is awaited.
TransactionCreated(c) ==
    /\ pc[c] = "getIrys2"
    /\ listeners' = [listeners EXCEPT ![c] = @ \o RegisteredCallbacks]
    /\ tx' = [tx EXCEPT ![c] = [NoTx EXCEPT !.data = bundle[c]]]
    /\ trace' = [trace EXCEPT
                    ![c] = Append(Append(@, "createTransaction"), "sign")]
    /\ pc' = [pc EXCEPT ![c] = "txsign"]
    /\ UNCHANGED << files, ephemeralSigner, fstate, fitem, order,
                    preppedFiles, pathMap, bundle, emitted, heard, uploads,
                    result, threw, errorsLogged >>

\* uploadBundle, getIrys() resolved, the callbacks are registered and
\* createTransaction throws.
TransactionThrown(c) ==
    /\ pc[c] = "getIrys2"
    /\ listeners' = [listeners EXCEPT ![c] = @ \o RegisteredCallbacks]
    /\ trace' = [trace EXCEPT ![c] = Append(@, "createTransaction")]
    /\ Catch(c)
    /\ UNCHANGED << files, ephemeralSigner, fstate, fitem, order,
                    preppedFiles, pathMap, bundle, tx, emitted, heard,
                    uploads >>

\* tx.sign() resolved: uploader.uploadTransaction(tx) is awaited.
TransactionSigned(c) ==
    /\ pc[c] = "txsign"
    /\ LET signed == [tx[c] EXCEPT !.signed = TRUE, !.id = <<0, c>>]
       IN  /\ tx' = [tx EXCEPT ![c] = signed]
           /\ uploads' = [uploads EXCEPT ![c] = Append(@, signed)]
    /\ trace' = [trace EXCEPT ![c] = Append(@, "uploadTransaction")]
    /\ pc' = [pc EXCEPT ![c] = "uploading"]
    /\ UNCHANGED << files, ephemeralSigner, fstate, fitem, order,
                    preppedFiles, pathMap, bundle, listeners, emitted, heard,
                    result, threw, errorsLogged >>

\* The uploader emits chunkUpload or chunkError while the upload runs;
\* every callback registered for the event logs a line.
ChunkEvent(c, ev) ==
    /\ pc[c] = "uploading"
    /\ emitted[c] < MaxChunks
    /\ emitted' = [emitted EXCEPT ![c] = @ + 1]
    /\ heard' = [heard EXCEPT ![c] = @ + CallbacksFor(listeners[c], ev)]
    /\ UNCHANGED << files, pc, ephemeralSigner, fstate, fitem, order,
                    preppedFiles, pathMap, bundle, tx, listeners, uploads,
                    trace, result, threw, errorsLogged >>

\* The upload finished: the uploader emits done, uploadTransaction resolves
\* with the receipt and the call returns [manifestId, receipt.data.id].
Uploaded(c) ==
    /\ pc[c] = "uploading"
    /\ emitted' = [emitted EXCEPT ![c] = @ + 1]
    /\ heard' = [heard EXCEPT ![c] = @ + CallbacksFor(listeners[c], "done")]
    /\ result' =
          [result EXCEPT
              ![c] = TryReturn(<<ManifestIdOf(bundle[c]), ReceiptId(tx[c])>>)]
    /\ pc' = [pc EXCEPT ![c] = "returned"]
    /\ UNCHANGED << files, ephemeralSigner, fstate, fitem, order,
                    preppedFiles, pathMap, bundle, tx, listeners, uploads,
                    trace, threw, errorsLogged >>

\* The promise call c awaits rejects (or the code that follows the await
\* throws before the next await): the error reaches the catch block.
Throw(c) ==
    /\ pc[c] \in AwaitPoints
    /\ Catch(c)
    /\ UNCHANGED << files, ephemeralSigner, fstate, fitem, order,
                    preppedFiles, pathMap, bundle, tx, listeners, emitted,
                    heard, uploads, trace >>

Step(c) ==
    \/ KeyGenerated(c)
    \/ \E i \in 1..MaxFiles : FileRead(c, i)
    \/ \E i \in 1..MaxFiles : FileSigned(c, i)
    \/ \E i \in 1..MaxFiles : FileFailed(c, i)
    \/ ManifestRequested(c)
    \/ ManifestGenerated(c)
    \/ Bundled(c)
    \/ TransactionCreated(c)
    \/ TransactionThrown(c)
    \/ TransactionSigned(c)
    \/ \E ev \in {"chunkUpload", "chunkError"} : ChunkEvent(c, ev)
    \/ Uploaded(c)
    \/ Throw(c)

\* One call, any list of up to MaxFiles files.
Next ==
    \/ \E fs \in Inputs : Call(1, fs)
    \/ Step(1)

Spec == Init /\ [][Next]_vars

\* NumCalls calls that may overlap, each with a list of OverlapInputs.
NextCalls ==
    \E c \in Calls :
        \/ \E fs \in OverlapInputs : Call(c, fs)
        \/ Step(c)

SpecCalls == Init /\ [][NextCalls]_vars

-----------------------------------------------------------------------------
\* Vocabulary of the properties.

Has(seq, x) == \E j \in 1..Len(seq) : seq[j] = x
IsPrefix(s, t) == Len(s) <= Len(t) /\ \A j \in 1..Len(s) : s[j] = t[j]
DistinctNames(fs) ==
    \A i, j \in 1..Len(fs) : i # j => fs[i].name # fs[j].name
Succeeded(c) == pc[c] = "returned" /\ ~threw[c]
AllDone(c) == \A i \in 1..Len(fstate[c]) : fstate[c][i] = "done"
\* prepareFiles of call c has returned its Map
Prepared(c) == pc[c] \notin {"idle", "keygen"} /\ AllDone(c)
\* file i settled before file j
SettledBefore(c, i, j) ==
    \E k, l \in 1..Len(order[c]) : k < l /\ order[c][k] = i /\ order[c][l] = j

\* C1: a call never rejects: whenever an error reached the catch block, the
\* call has returned, one error line was logged and the call resolved to
\* the pair ["", ""]; no call ever settles to a rejection.
C1_NeverRejects ==
    \A c \in Calls :
        /\ result[c] # Rejected
        /\ threw[c] =>
              /\ pc[c] = "returned"
              /\ errorsLogged[c] = 1
              /\ result[c] = <<EmptyString, EmptyString>>
        /\ pc[c] = "returned" => Len(result[c]) = 2

\* C1 witness: the chunked upload of a call with files failed and the call
\* resolved to ["", ""].
C1_Witness ==
    \E c \in Calls :
        /\ threw[c]
        /\ Has(trace[c], "uploadTransaction")
        /\ Len(files[c]) >= 1
        /\ result[c] = <<EmptyString, EmptyString>>

C3_StagesInOrder ==
    \A c \in Calls :
        /\ IsPrefix(trace[c], Stages)
        /\ trace[c] # <<>> =>
              \A i \in 1..Len(files[c]) :
                  /\ fstate[c][i] = "done"
                  /\ fitem[c][i].kind = "file"
                  /\ IsSigned(fitem[c][i])
        /\ Len(uploads[c]) <= 1
        /\ bundle[c] # <<>> => Has(trace[c], "bundleAndSignData")
        /\ Succeeded(c) =>
              /\ trace[c] = Stages
              /\ Len(uploads[c]) = 1
              /\ uploads[c][1].signed
              /\ uploads[c][1].data = bundle[c]

\* C3 witness: a call with three files went through all stages, the files
\* having been signed in an order other than the input order.
C3_Witness ==
    \E c \in Calls :
        /\ Succeeded(c)
        /\ trace[c] = Stages
        /\ Len(files[c]) >= 2
        /\ SettledBefore(c, 2, 1)

\* C4: the bundle submitted for upload holds one item per input file and
\* the manifest item, n + 1 items for n files.
C4_AllFilesBundled ==
    \A c \in Calls :
        \A k \in 1..Len(uploads[c]) :
            Len(uploads[c][k].data) = Len(files[c]) + 1

\* C5: once generateManifest has been called, the path map has, for every
\* input file, an entry from the file's name to the id of the item that
\* wraps that file, and every id of the map is the id of a bundled item.
C5_PathMapCoversFiles ==
    \A c \in Calls :
        /\ Has(trace[c], "generateManifest") =>
              \A i \in 1..Len(files[c]) :
                  Has(pathMap[c], <<files[c][i].name, fitem[c][i].id>>)
        /\ bundle[c] # <<>> =>
              \A j \in 1..Len(pathMap[c]) :
                  \E k \in 1..Len(bundle[c]) :
                      bundle[c][k].id = pathMap[c][j][2]

\* C6: the pair ["", ""] is the result only of a call in which an error
\* reached the catch block; a call that returned without an error went
\* through the upload and did not return ["", ""].
C6_FallbackOnlyOnError ==
    \A c \in Calls :
        /\ result[c] = <<EmptyString, EmptyString>> =>
              threw[c] /\ errorsLogged[c] = 1
        /\ Succeeded(c) =>
              /\ errorsLogged[c] = 0
              /\ Has(trace[c], "uploadTransaction")
              /\ result[c] # <<EmptyString, EmptyString>>
              /\ result[c] # NoResult

\* C6 witness: a call returned the pair of uploadBundle, no error thrown.
C6_Witness ==
    \E c \in Calls :
        /\ pc[c] = "returned"
        /\ ~threw[c]
        /\ errorsLogged[c] = 0
        /\ result[c] = <<bundle[c][Len(bundle[c])].id, tx[c].id>>

\* C7: once an error reached the catch block the call makes no further
\* stage call, uploads nothing and keeps its result; a failed file is never
\* prepared again; and a call with a failed file has made no stage call.
C7_Step ==
    \A c \in Calls :
        /\ threw[c] =>
              /\ trace'[c] = trace[c]
              /\ uploads'[c] = uploads[c]
              /\ result'[c] = result[c]
              /\ pc'[c] = pc[c]
              /\ threw'[c]
        /\ \A i \in 1..Len(fstate[c]) :
              fstate[c][i] \in {"failed", "done"} =>
                  fstate'[c][i] = fstate[c][i]
        /\ (\E i \in 1..Len(fstate'[c]) : fstate'[c][i] = "failed") =>
              /\ trace'[c] = <<>>
              /\ uploads'[c] = <<>>
              /\ pc'[c] = "returned"
              /\ result'[c] = <<EmptyString, EmptyString>>
C7_NoRecovery == [][C7_Step]_vars

\* C7 witness: a file failed, the call returned ["", ""], and another file
\* of the call was signed after that failure.
C7_Witness ==
    \E c \in Calls :
        /\ threw[c]
        /\ trace[c] = <<>>
        /\ \E i, j \in 1..Len(files[c]) :
              /\ fstate[c][i] = "failed"
              /\ fstate[c][j] = "done"
              /\ SettledBefore(c, i, j)

\* C8: for files with pairwise distinct names, once all files are prepared
\* the item map has one entry per file in input order, each pairing the
\* file's name with the signed item built from that file's bytes and
\* content type, and the file items of the bundle are these items in the
\* same order, whatever the order the files settled in.
C8_OrderIndependent ==
    \A c \in Calls :
        (DistinctNames(files[c]) /\ Prepared(c)) =>
                /\ Len(preppedFiles[c]) = Len(files[c])
                /\ \A i \in 1..Len(files[c]) :
                      /\ preppedFiles[c][i][1] = files[c][i].name
                      /\ preppedFiles[c][i][2] = fitem[c][i]
                      /\ preppedFiles[c][i][2].data = files[c][i].data
                      /\ preppedFiles[c][i][2].ctype = files[c][i].type
                      /\ Has(trace[c], "generateManifest") =>
                            pathMap[c][i] =
                                <<files[c][i].name, fitem[c][i].id>>
                      /\ bundle[c] # <<>> =>
                            bundle[c][i] = preppedFiles[c][i][2]

\* C8 witness: two files with distinct names were bundled, the second one
\* signed before the first.
C8_Witness ==
    \E c \in Calls :
        /\ DistinctNames(files[c])
        /\ Len(files[c]) >= 2
        /\ Len(order[c]) >= 2
        /\ order[c][1] > order[c][2]
        /\ Len(bundle[c]) = Len(files[c]) + 1

\* C9: from the creation of the transaction on, the call has registered
\* exactly one callback for each of chunkUpload, chunkError and done; no
\* event is emitted before that, and every emitted event invoked exactly
\* one callback.
C9_CallbacksBeforeUpload ==
    \A c \in Calls :
        /\ Has(trace[c], "createTransaction") =>
              /\ Len(listeners[c]) = 3
              /\ \A ev \in {"chunkUpload", "chunkError", "done"} :
                    CallbacksFor(listeners[c], ev) = 1
        /\ ~Has(trace[c], "createTransaction") =>
              listeners[c] = <<>> /\ emitted[c] = 0
        /\ uploads[c] # <<>> => Len(listeners[c]) = 3
        /\ heard[c] = emitted[c]

\* C9 witness: an upload emitted a chunk event and the done event, and
\* both were heard.
C9_Witness ==
    \E c \in Calls :
        /\ Succeeded(c)
        /\ emitted[c] >= 2
        /\ heard[c] = emitted[c]

\* C10: calls that have a signer have pairwise different signers; every
\* file item, every item of the bundle (the manifest item included) is
\* owned by the signer of its call and, once signed, signed by it; and the
\* ids in the path map are ids of signed items.
C10_OneFreshSignerPerCall ==
    \A c \in Calls :
        /\ \A d \in Calls :
              c # d /\ ephemeralSigner[c] # NoSigner =>
                  ephemeralSigner[d] # ephemeralSigner[c]
        /\ (ephemeralSigner[c] = NoSigner) =>
              (\A i \in 1..Len(fstate[c]) : fstate[c][i] = "new")
        /\ \A i \in 1..Len(fitem[c]) :
              fitem[c][i] # NoItem =>
                  /\ fitem[c][i].owner = ephemeralSigner[c]
                  /\ IsSigned(fitem[c][i]) =>
                        fitem[c][i].id[1] = ephemeralSigner[c]
        /\ \A j \in 1..Len(bundle[c]) :
              /\ bundle[c][j].owner = ephemeralSigner[c]
              /\ IsSigned(bundle[c][j])
              /\ bundle[c][j].id[1] = ephemeralSigner[c]
        /\ \A j \in 1..Len(pathMap[c]) : pathMap[c][j][2] # UnsignedId

\* C10 witness: one call has bundled a file and the manifest while another
\* call, started with its own signer, is still preparing its file.
C10_Witness ==
    \E c, d \in Calls :
        /\ c # d
        /\ Len(bundle[c]) = 2
        /\ pc[d] = "prepare"
        /\ ephemeralSigner[d] # NoSigner
        /\ ephemeralSigner[c] # NoSigner

====
